---- MODULE Spec2Model ----
(***************************************************************************)
(* Link forwarder (lnk): a table of shortcode -> url records behind an     *)
(* HTTP server.  The model follows cmd/server/main.go (variant "server")   *)
(* and the standalone main.go (variant "standalone"), which differ in the  *)
(* not-found answer of handleForward.                                      *)
(*                                                                         *)
(* The links table is a bag of rows [shortcode, url, created_at]; the      *)
(* PRIMARY KEY is what INSERT OR REPLACE enforces by deleting the          *)
(* conflicting rows, so it is modelled as that deletion and not assumed.   *)
(* created_at is CURRENT_TIMESTAMP, which has a resolution of one second:  *)
(* clock counts seconds and several statements may run within one second.  *)
(***************************************************************************)
EXTENDS Bags, FiniteSets, Integers, Sequences, TLC

VARIABLES
    variant,   \* which main package is running: "server" or "standalone"
    pc,        \* position of main(): "start", "seed_google", "seed_github", "serving"
    links,     \* the links table (persisted in links.db): a bag of rows
    clock,     \* the second the latest INSERT read from CURRENT_TIMESTAMP
    last,      \* the last call made and what it returned (request, result, response)
    inflight,  \* the requests being served at once, each by its own goroutine
    db         \* the store handle of the process: "unopened", "open" or "closed"

vars == <<variant, pc, links, clock, last, inflight, db>>

\* Seconds the clock may reach.
MaxClock == 1

\* Requests served at once.
MaxRequests == 2

Requests == 1..MaxRequests

Variants == {"server", "standalone"}

\* Shortcodes a request can carry in its path ({shortcode} never matches "").
PathShortcodes == {"google", "github", "x"}

\* Shortcodes and urls a POST body can carry.
BodyShortcodes == PathShortcodes \cup {""}
BodyURLs == {"", "github.com", "http://example.org", "https://github.com"}

----------------------------------------------------------------------------
(* Helpers of the Go standard library and of SQLite *)

\* strings.HasPrefix
HasPrefix(s, prefix) ==
    /\ Len(s) >= Len(prefix)
    /\ SubSeq(s, 1, Len(prefix)) = prefix

\* The rows of the table whose shortcode is s (WHERE shortcode = ?), as a bag.
RowsOf(rows, s) ==
    LET hit == {r \in DOMAIN rows : r.shortcode = s}
    IN  [r \in hit |-> rows[r]]

\* Faulty variant: an INSERT into a table without the key (nothing is replaced).
InsertPlain(rows, row) == rows (+) SetToBag({row})

\* INSERT OR REPLACE on a table with PRIMARY KEY shortcode: the rows that
\* conflict with the new row are deleted, then the new row is inserted.
InsertOrReplace(rows, row) ==
    (rows (-) RowsOf(rows, row.shortcode)) (+) SetToBag({row})

\* Faulty variant: ORDER BY created_at ASC.
OrderedAsc(rows) ==
    LET n == BagCardinality(rows)
    IN  {q \in [1..n -> DOMAIN rows] :
            /\ \A r \in DOMAIN rows : Cardinality({i \in 1..n : q[i] = r}) = rows[r]
            /\ \A i, j \in 1..n : i < j => q[i].created_at <= q[j].created_at}

\* The results ORDER BY created_at DESC may produce: every arrangement of the
\* rows with created_at not increasing (the order of equal keys is unspecified).
OrderByCreatedAtDesc(rows) ==
    LET n == BagCardinality(rows)
    IN  {q \in [1..n -> DOMAIN rows] :
            /\ \A r \in DOMAIN rows : Cardinality({i \in 1..n : q[i] = r}) = rows[r]
            /\ \A i, j \in 1..n : i < j => q[i].created_at >= q[j].created_at}

\* type Link struct { Shortcode, URL }
Link(shortcode, url) == [shortcode |-> shortcode, url |-> url]

----------------------------------------------------------------------------
(* The repository: saveLink, getURL, getAllLinks, deleteLink.              *)
(* fault says whether the statement fails in the store (I/O error, locked  *)
(* database); a failed statement changes nothing.                          *)

\* Faulty variant: the url is stored as given.
saveLinkNoScheme(rows, shortcode, url, now, fault) ==
    IF fault
    THEN [links |-> rows, err |-> "store"]
    ELSE [links |-> InsertOrReplace(rows,
                        [shortcode |-> shortcode, url |-> url, created_at |-> now]),
          err |-> "ok"]

\* Faulty variant: INSERT OR IGNORE (an existing record is kept).
saveLinkIgnore(rows, shortcode, url, now, fault) ==
    LET u == IF ~HasPrefix(url, "http://") /\ ~HasPrefix(url, "https://")
             THEN "https://" \o url
             ELSE url
    IN  IF fault
        THEN [links |-> rows, err |-> "store"]
        ELSE IF DOMAIN RowsOf(rows, shortcode) # {}
        THEN [links |-> rows, err |-> "ok"]
        ELSE [links |-> InsertOrReplace(rows,
                            [shortcode |-> shortcode, url |-> u, created_at |-> now]),
              err |-> "ok"]

\* Faulty variant: an overwrite keeps the created_at of the record (an
\* ON CONFLICT DO UPDATE SET url).
saveLinkKeepCreatedAt(rows, shortcode, url, now, fault) ==
    LET u == IF ~HasPrefix(url, "http://") /\ ~HasPrefix(url, "https://")
             THEN "https://" \o url
             ELSE url
        old == DOMAIN RowsOf(rows, shortcode)
        at == IF old = {} THEN now ELSE (CHOOSE r \in old : TRUE).created_at
    IN  IF fault
        THEN [links |-> rows, err |-> "store"]
        ELSE [links |-> InsertOrReplace(rows,
                            [shortcode |-> shortcode, url |-> u, created_at |-> at]),
              err |-> "ok"]

\* Faulty variant: a failed REPLACE has already deleted the conflicting rows.
saveLinkTorn(rows, shortcode, url, now, fault) ==
    LET u == IF ~HasPrefix(url, "http://") /\ ~HasPrefix(url, "https://")
             THEN "https://" \o url
             ELSE url
    IN  IF fault
        THEN [links |-> rows (-) RowsOf(rows, shortcode), err |-> "store"]
        ELSE [links |-> InsertOrReplace(rows,
                            [shortcode |-> shortcode, url |-> u, created_at |-> now]),
              err |-> "ok"]

\* saveLink: the scheme check, then INSERT OR REPLACE INTO links (shortcode, url);
\* created_at takes its default, CURRENT_TIMESTAMP, on every insert.
saveLink(rows, shortcode, url, now, fault) ==
    LET u == IF ~HasPrefix(url, "http://") /\ ~HasPrefix(url, "https://")
             THEN "https://" \o url
             ELSE url
    IN  IF fault
        THEN [links |-> rows, err |-> "store"]
        ELSE [links |-> InsertOrReplace(rows,
                            [shortcode |-> shortcode, url |-> u, created_at |-> now]),
              err |-> "ok"]

\* Faulty variant: the SELECT has no WHERE clause.
getURLAny(rows, shortcode, fault) ==
    LET hit == DOMAIN rows
    IN  IF fault THEN [url |-> "", err |-> "store"]
        ELSE IF hit = {} THEN [url |-> "", err |-> "notfound"]
        ELSE [url |-> (CHOOSE r \in hit : TRUE).url, err |-> "ok"]

\* getURL: sql.ErrNoRows becomes "shortcode not found"; any other error is
\* returned as it is.
getURL(rows, shortcode, fault) ==
    LET hit == DOMAIN RowsOf(rows, shortcode)
    IN  IF fault THEN [url |-> "", err |-> "store"]
        ELSE IF hit = {} THEN [url |-> "", err |-> "notfound"]
        ELSE [url |-> (CHOOSE r \in hit : TRUE).url, err |-> "ok"]

\* order is the sequence of rows the query yields; fault is "none", "query"
\* (db.Query fails), "scan" (rows.Scan fails on row k+1) or "iter" (rows.Next
\* stops with an error after k rows; rows.Err() is not consulted).
ListFaults == {"none", "query", "scan", "iter"}

\* Faulty variant: the loop stops one row early.
getAllLinksDropLast(order, fault, k) ==
    LET all == [i \in 1..Len(order) |-> Link(order[i].shortcode, order[i].url)]
    IN  IF fault \in {"query", "scan"} THEN [links |-> <<>>, err |-> "store"]
        ELSE IF fault = "iter" THEN [links |-> SubSeq(all, 1, k), err |-> "ok"]
        ELSE [links |-> SubSeq(all, 1, Len(all) - 1), err |-> "ok"]

getAllLinks(order, fault, k) ==
    LET all == [i \in 1..Len(order) |-> Link(order[i].shortcode, order[i].url)]
    IN  IF fault \in {"query", "scan"} THEN [links |-> <<>>, err |-> "store"]
        ELSE IF fault = "iter" THEN [links |-> SubSeq(all, 1, k), err |-> "ok"]
        ELSE [links |-> all, err |-> "ok"]

\* Faulty variant: RowsAffected is not consulted.
deleteLinkSilent(rows, shortcode, fault) ==
    IF fault THEN [links |-> rows, err |-> "store"]
    ELSE [links |-> rows (-) RowsOf(rows, shortcode), err |-> "ok"]

\* Faulty variant: the rows are counted but not deleted.
deleteLinkKeep(rows, shortcode, fault) ==
    LET affected == BagCardinality(RowsOf(rows, shortcode))
    IN  IF fault THEN [links |-> rows, err |-> "store"]
        ELSE IF affected = 0 THEN [links |-> rows, err |-> "notfound"]
        ELSE [links |-> rows, err |-> "ok"]

\* deleteLink: DELETE ... WHERE shortcode = ?, not found when no row is affected.
deleteLink(rows, shortcode, fault) ==
    LET affected == BagCardinality(RowsOf(rows, shortcode))
    IN  IF fault THEN [links |-> rows, err |-> "store"]
        ELSE IF affected = 0 THEN [links |-> rows, err |-> "notfound"]
        ELSE [links |-> rows (-) RowsOf(rows, shortcode), err |-> "ok"]

----------------------------------------------------------------------------
(* The HTTP handlers.  Each returns the table it leaves and the response.  *)

NoData == [kind |-> "absent", links |-> <<>>]

\* Response{Success, Message, Data} with the status written before it; envelope
\* says that the body is this JSON object.
Response(status, success, message, data) ==
    [status |-> status, location |-> "", envelope |-> TRUE, success |-> success,
     message |-> message, data |-> data]

\* http.Error, http.Redirect and the router's own answers write no envelope.
Plain(status, location, message) ==
    [status |-> status, location |-> location, envelope |-> FALSE, success |-> FALSE,
     message |-> message, data |-> NoData]

\* Faulty variant: a found shortcode is answered 301 (Moved Permanently).
handleForwardMoved(v, rows, shortcode, fault) ==
    IF shortcode = ""
    THEN [err |-> "-", out |-> "", resp |-> Plain(400, "", "Shortcode is required")]
    ELSE LET r == getURL(rows, shortcode, fault)
         IN  IF r.err # "ok"
             THEN [err |-> r.err, out |-> r.url,
                   resp |-> IF v = "server"
                            THEN Plain(302, "/?shortcode=" \o shortcode \o "&error=not_found", "")
                            ELSE Plain(404, "", "Link not found")]
             ELSE [err |-> "ok", out |-> r.url, resp |-> Plain(301, r.url, "")]

\* Faulty variant: both not-found answers behind one route (404 for "x").
handleForwardMixed(v, rows, shortcode, fault) ==
    IF shortcode = ""
    THEN [err |-> "-", out |-> "", resp |-> Plain(400, "", "Shortcode is required")]
    ELSE LET r == getURL(rows, shortcode, fault)
         IN  IF r.err # "ok"
             THEN [err |-> r.err, out |-> r.url,
                   resp |-> IF v = "server" /\ shortcode # "x"
                            THEN Plain(302, "/?shortcode=" \o shortcode \o "&error=not_found", "")
                            ELSE Plain(404, "", "Link not found")]
             ELSE [err |-> "ok", out |-> r.url, resp |-> Plain(302, r.url, "")]

\* Faulty variant: the shortcode is not checked before the lookup.
handleForwardNoCheck(v, rows, shortcode, fault) ==
    LET r == getURL(rows, shortcode, fault)
    IN  IF r.err # "ok"
        THEN [err |-> r.err, out |-> r.url,
              resp |-> IF v = "server"
                       THEN Plain(302, "/?shortcode=" \o shortcode \o "&error=not_found", "")
                       ELSE Plain(404, "", "Link not found")]
        ELSE [err |-> "ok", out |-> r.url, resp |-> Plain(302, r.url, "")]

\* handleForward: 400 on an empty shortcode, the not-found answer of the
\* variant on any error of getURL, 302 to the url otherwise.
handleForward(v, rows, shortcode, fault) ==
    IF shortcode = ""
    THEN [err |-> "-", out |-> "", resp |-> Plain(400, "", "Shortcode is required")]
    ELSE LET r == getURL(rows, shortcode, fault)
         IN  IF r.err # "ok"
             THEN [err |-> r.err, out |-> r.url,
                   resp |-> IF v = "server"
                            THEN Plain(302, "/?shortcode=" \o shortcode \o "&error=not_found", "")
                            ELSE Plain(404, "", "Link not found")]
             ELSE [err |-> "ok", out |-> r.url, resp |-> Plain(302, r.url, "")]

\* Faulty variant: the status of a failed listing is left at 200.
handleAPIGetNoStatus(order, fault, k) ==
    LET r == getAllLinks(order, fault, k)
    IN  IF r.err # "ok"
        THEN [err |-> r.err, list |-> r.links,
              resp |-> Response(200, FALSE, "Failed to retrieve links", NoData)]
        ELSE [err |-> "ok", list |-> r.links,
              resp |-> Response(200, TRUE, "Links retrieved successfully",
                          [kind |-> IF r.links = <<>> THEN "null" ELSE "links",
                           links |-> r.links])]

\* case "GET": a nil slice in Data (an interface) is encoded as null.
handleAPIGet(order, fault, k) ==
    LET r == getAllLinks(order, fault, k)
    IN  IF r.err # "ok"
        THEN [err |-> r.err, list |-> r.links,
              resp |-> Response(500, FALSE, "Failed to retrieve links", NoData)]
        ELSE [err |-> "ok", list |-> r.links,
              resp |-> Response(200, TRUE, "Links retrieved successfully",
                          [kind |-> IF r.links = <<>> THEN "null" ELSE "links",
                           links |-> r.links])]

\* Faulty variant: the fields are required with && in place of ||.
handleAPIPostBothEmpty(rows, jsonOK, shortcode, url, now, fault) ==
    IF ~jsonOK
    THEN [links |-> rows, err |-> "-",
          resp |-> Response(400, FALSE, "Invalid JSON", NoData)]
    ELSE IF shortcode = "" /\ url = ""
    THEN [links |-> rows, err |-> "-",
          resp |-> Response(400, FALSE, "Shortcode and URL are required", NoData)]
    ELSE LET r == saveLink(rows, shortcode, url, now, fault)
         IN  IF r.err # "ok"
             THEN [links |-> r.links, err |-> r.err,
                   resp |-> Response(500, FALSE, "Failed to save link", NoData)]
             ELSE [links |-> r.links, err |-> "ok",
                   resp |-> Response(200, TRUE, "Link saved successfully",
                               [kind |-> "link", links |-> <<Link(shortcode, url)>>])]

\* case "POST": jsonOK says whether the body decodes into a Link.
handleAPIPost(rows, jsonOK, shortcode, url, now, fault) ==
    IF ~jsonOK
    THEN [links |-> rows, err |-> "-",
          resp |-> Response(400, FALSE, "Invalid JSON", NoData)]
    ELSE IF shortcode = "" \/ url = ""
    THEN [links |-> rows, err |-> "-",
          resp |-> Response(400, FALSE, "Shortcode and URL are required", NoData)]
    ELSE LET r == saveLink(rows, shortcode, url, now, fault)
         IN  IF r.err # "ok"
             THEN [links |-> r.links, err |-> r.err,
                   resp |-> Response(500, FALSE, "Failed to save link", NoData)]
             ELSE [links |-> r.links, err |-> "ok",
                   resp |-> Response(200, TRUE, "Link saved successfully",
                               [kind |-> "link", links |-> <<Link(shortcode, url)>>])]

\* case "DELETE": every error of deleteLink is answered 404 with its text.
handleAPIDelete(rows, shortcode, fault) ==
    IF shortcode = ""
    THEN [links |-> rows, err |-> "-",
          resp |-> Response(400, FALSE, "Shortcode is required", NoData)]
    ELSE LET r == deleteLink(rows, shortcode, fault)
         IN  IF r.err # "ok"
             THEN [links |-> r.links, err |-> r.err,
                   resp |-> Response(404, FALSE,
                               IF r.err = "notfound" THEN "shortcode not found"
                               ELSE "store error", NoData)]
             ELSE [links |-> r.links, err |-> "ok",
                   resp |-> Response(200, TRUE, "Link deleted successfully", NoData)]

\* default: of the switch on r.Method.
handleAPIOther(rows) ==
    [links |-> rows, err |-> "-",
     resp |-> Response(405, FALSE, "Method not allowed", NoData)]

\* The router on a request whose path matches a route registered for other
\* methods, and no other route: it answers 405 itself and calls no handler.
routeMethodMismatch(rows) ==
    [links |-> rows, err |-> "-", resp |-> Plain(405, "", "")]

----------------------------------------------------------------------------
(* The record of the last call: the request, the fault the store met, the  *)
(* result of the repository call and the response.  had and follows are    *)
(* history: whether the shortcode had a row when the call began, and       *)
(* whether the call before it was a successful write of the same shortcode.*)

FaultName(fault) == IF fault THEN "exec" ELSE "none"

NoResponse == Plain(0, "", "")

Had(rows, s) == DOMAIN RowsOf(rows, s) # {}

Follows(s, u) ==
    IF last.err = "ok" /\ last.shortcode = s
    THEN IF last.op \in {"post", "seed"}
         THEN (IF last.url = u THEN "upsert_same" ELSE "upsert")
         ELSE IF last.op = "delete" THEN "delete" ELSE "-"
    ELSE "-"

Call(op, s, u, fault, err, out, list, resp) ==
    [op |-> op, shortcode |-> s, url |-> u, fault |-> fault,
     had |-> Had(links, s), follows |-> Follows(s, u),
     err |-> err, out |-> out, list |-> list, resp |-> resp]

\* How far the next INSERT may be from the latest one: within the same
\* second or in a later one (the clock does not go back).
Seconds == {d \in 0..1 : clock + d <= MaxClock}

----------------------------------------------------------------------------
(* main(): open the store, seed the two default links, serve.              *)

\* A request slot no request has used yet.
Idle == [state |-> "idle", op |-> "-", shortcode |-> "", url |-> "",
         err |-> "-", status |-> 0, overlap |-> FALSE]

Init ==
    /\ variant \in Variants
    /\ pc = "start"
    /\ links = EmptyBag
    /\ clock = 0
    /\ last = [op |-> "none", shortcode |-> "", url |-> "", fault |-> "none", had |-> FALSE,
               follows |-> "-", err |-> "-", out |-> "", list |-> <<>>,
               resp |-> NoResponse]
    /\ inflight = [i \in Requests |-> Idle]
    /\ db = "unopened"

\* NewLinkForwarder: sql.Open and CREATE TABLE IF NOT EXISTS keep the rows.
NewLinkForwarder ==
    /\ pc = "start"
    /\ pc' = "seed_google"
    /\ last' = Call("open", "", "", "none", "ok", "", <<>>, NoResponse)
    /\ db' = "open"
    /\ UNCHANGED <<inflight, variant, links, clock>>

\* Close: db.Close().
Close(handle) == "closed"

\* lf.saveLink("google", ...) and lf.saveLink("github", ...): errors ignored.
Seed(at, next, shortcode, url) ==
    /\ pc = at
    /\ \E d \in Seconds, fault \in BOOLEAN :
        LET r == saveLink(links, shortcode, url, clock + d, fault)
        IN  /\ clock' = clock + d
            /\ links' = r.links
            /\ last' = Call("seed", shortcode, url, FaultName(fault), r.err, "", <<>>, NoResponse)
    /\ pc' = next
    /\ UNCHANGED <<db, inflight, variant>>

SeedGoogle == Seed("seed_google", "seed_github", "google", "https://www.google.com")

SeedGithub == Seed("seed_github", "serving", "github", "https://github.com")

\* Faulty variant: a link is forwarded once (the lookup removes the record).
ForwardOnce ==
    /\ pc = "serving"
    /\ \E s \in PathShortcodes, fault \in BOOLEAN :
        LET h == handleForward(variant, links, s, fault)
        IN  /\ last' = Call("forward", s, "", FaultName(fault), h.err, h.out, <<>>, h.resp)
            /\ links' = IF h.err = "ok" THEN links (-) RowsOf(links, s) ELSE links
    /\ UNCHANGED <<db, inflight, variant, pc, clock>>

\* GET /{shortcode}
Forward ==
    /\ pc = "serving"
    /\ \E s \in PathShortcodes, fault \in BOOLEAN :
        LET h == handleForward(variant, links, s, fault)
        IN  last' = Call("forward", s, "", FaultName(fault), h.err, h.out, <<>>, h.resp)
    /\ UNCHANGED <<db, inflight, variant, pc, links, clock>>

\* GET /api/links
ApiGet ==
    /\ pc = "serving"
    /\ \E order \in OrderByCreatedAtDesc(links), fault \in ListFaults :
        \E k \in 0..Len(order) :
            /\ fault = "none" => k = Len(order)
            /\ fault = "query" => k = 0
            /\ fault = "scan" => k < Len(order)
            /\ LET h == handleAPIGet(order, fault, k)
               IN  last' = Call("list", "", "", fault, h.err, "", h.list, h.resp)
    /\ UNCHANGED <<db, inflight, variant, pc, links, clock>>

\* POST /api/links
ApiPost ==
    /\ pc = "serving"
    /\ \E d \in Seconds, jsonOK \in BOOLEAN, s \in BodyShortcodes, u \in BodyURLs,
          fault \in BOOLEAN :
        LET h == handleAPIPost(links, jsonOK, s, u, clock + d, fault)
        IN  /\ jsonOK \/ (s = "" /\ u = "")
            /\ (~jsonOK \/ s = "" \/ u = "") => ~fault
            /\ clock' = clock + d
            /\ links' = h.links
            /\ last' = Call("post", s, u, FaultName(fault), h.err, "", <<>>, h.resp)
    /\ UNCHANGED <<db, inflight, variant, pc>>

\* DELETE /api/links/{shortcode}
ApiDelete ==
    /\ pc = "serving"
    /\ \E s \in PathShortcodes, fault \in BOOLEAN :
        LET h == handleAPIDelete(links, s, fault)
        IN  /\ links' = h.links
            /\ last' = Call("delete", s, "", FaultName(fault), h.err, "", <<>>, h.resp)
    /\ UNCHANGED <<db, inflight, variant, pc, clock>>

\* The process ends: http.ListenAndServe returns its error to log.Fatal, which
\* calls os.Exit(1) (or the process is killed).  Neither runs the deferred
\* lf.Close(), so db is left as the process had it; links.db stays on disk
\* for the next start.
Exit ==
    /\ pc = "serving"
    /\ pc' = "start"
    /\ last' = Call("exit", "", "", "none", "-", "", <<>>, NoResponse)
    /\ UNCHANGED <<db, inflight, variant, links, clock>>

\* Another method on /api/links (s = "") or on /api/links/{shortcode}.
ApiOther ==
    /\ pc = "serving"
    /\ \E s \in BodyShortcodes :
        LET h == routeMethodMismatch(links)
        IN  /\ links' = h.links
            /\ last' = Call("other", s, "", "none", h.err, "", <<>>, h.resp)
    /\ UNCHANGED <<db, inflight, variant, pc, clock>>

Next ==
    \/ NewLinkForwarder
    \/ SeedGoogle
    \/ SeedGithub
    \/ Forward
    \/ ApiGet
    \/ ApiPost
    \/ ApiDelete
    \/ ApiOther
    \/ Exit

Spec == Init /\ [][Next]_vars

----------------------------------------------------------------------------
(* The handlers called directly, without the router (as a test calls them  *)
(* with a recorded request): mux.Vars is then empty, so the shortcode may  *)
(* be "", and handleAPI sees every method.                                 *)

DirectForward ==
    /\ pc = "serving"
    /\ \E s \in BodyShortcodes, fault \in BOOLEAN :
        LET h == handleForward(variant, links, s, fault)
        IN  last' = Call("forward", s, "", FaultName(fault), h.err, h.out, <<>>, h.resp)
    /\ UNCHANGED <<db, inflight, variant, pc, links, clock>>

DirectApiDelete ==
    /\ pc = "serving"
    /\ \E s \in BodyShortcodes, fault \in BOOLEAN :
        LET h == handleAPIDelete(links, s, fault)
        IN  /\ links' = h.links
            /\ last' = Call("delete", s, "", FaultName(fault), h.err, "", <<>>, h.resp)
    /\ UNCHANGED <<db, inflight, variant, pc, clock>>

DirectApiOther ==
    /\ pc = "serving"
    /\ LET h == handleAPIOther(links)
       IN  /\ links' = h.links
           /\ last' = Call("other", "", "", "none", h.err, "", <<>>, h.resp)
    /\ UNCHANGED <<db, inflight, variant, pc, clock>>

NextDirect ==
    \/ NewLinkForwarder
    \/ SeedGoogle
    \/ SeedGithub
    \/ DirectForward
    \/ ApiGet
    \/ ApiPost
    \/ DirectApiDelete
    \/ DirectApiOther
    \/ Exit

SpecDirect == Init /\ [][NextDirect]_vars

----------------------------------------------------------------------------
(* The API with bodies at the edge of what the POST branch accepts: a url  *)
(* that is only a scheme prefix, or only a space.                          *)

EdgeShortcodes == {"", "x"}
EdgeURLs == {"", " ", "http://", "https://"}

\* POST /api/links
ApiPostEdge ==
    /\ pc = "serving"
    /\ \E d \in Seconds, s \in EdgeShortcodes, u \in EdgeURLs, fault \in BOOLEAN :
        LET h == handleAPIPost(links, TRUE, s, u, clock + d, fault)
        IN  /\ (s = "" \/ u = "") => ~fault
            /\ clock' = clock + d
            /\ links' = h.links
            /\ last' = Call("post", s, u, FaultName(fault), h.err, "", <<>>, h.resp)
    /\ UNCHANGED <<db, inflight, variant, pc>>

NextEdge ==
    \/ NewLinkForwarder
    \/ SeedGoogle
    \/ SeedGithub
    \/ ApiGet
    \/ ApiPostEdge
    \/ ApiDelete
    \/ Exit

SpecEdge == Init /\ [][NextEdge]_vars

----------------------------------------------------------------------------
(* Requests served at once.  net/http runs each handler in its own         *)
(* goroutine; a handler of the API decodes its request, then runs one SQL  *)
(* statement, which the store executes atomically, then answers.  The run  *)
(* starts when serving begins, both default links stored.                  *)

\* Shortcodes and urls of the requests served at once.
ConcShortcodes == {"google", "x"}
ConcURLs == {"github.com", "http://example.org"}

InitConc ==
    /\ variant \in Variants
    /\ pc = "serving"
    /\ links = SetToBag({[shortcode |-> "google", url |-> "https://www.google.com",
                            created_at |-> 0],
                          [shortcode |-> "github", url |-> "https://github.com",
                            created_at |-> 0]})
    /\ clock = 0
    /\ last = [op |-> "seed", shortcode |-> "github", url |-> "https://github.com",
               fault |-> "none", had |-> FALSE, follows |-> "-", err |-> "ok",
               out |-> "", list |-> <<>>, resp |-> NoResponse]
    /\ inflight = [i \in Requests |-> Idle]
    /\ db = "open"

\* A request arrives and its handler starts: POST /api/links with a decoded
\* body, or DELETE /api/links/{shortcode}.  overlap records that another
\* request was being served at that moment.
Receive ==
    /\ pc = "serving"
    /\ \E i \in Requests, op \in {"post", "delete"}, s \in ConcShortcodes, u \in ConcURLs :
        /\ inflight[i].state = "idle"
        /\ op = "delete" => u = "github.com"
        /\ inflight' = [inflight EXCEPT ![i] =
                [state |-> "received", op |-> op, shortcode |-> s,
                 url |-> IF op = "post" THEN u ELSE "", err |-> "-", status |-> 0,
                 overlap |-> \E j \in Requests : inflight[j].state = "received"]]
    /\ UNCHANGED <<db, variant, pc, links, clock, last>>

\* The handler of a POST runs saveLink and answers.
ExecPost ==
    /\ pc = "serving"
    /\ \E i \in Requests, d \in Seconds, fault \in BOOLEAN :
        /\ inflight[i].state = "received"
        /\ inflight[i].op = "post"
        /\ LET h == handleAPIPost(links, TRUE, inflight[i].shortcode, inflight[i].url,
                                  clock + d, fault)
           IN  /\ clock' = clock + d
               /\ links' = h.links
               /\ inflight' = [inflight EXCEPT ![i].state = "done", ![i].err = h.err,
                                               ![i].status = h.resp.status]
    /\ UNCHANGED <<db, variant, pc, last>>

\* The handler of a DELETE runs deleteLink and answers.
ExecDelete ==
    /\ pc = "serving"
    /\ \E i \in Requests, fault \in BOOLEAN :
        /\ inflight[i].state = "received"
        /\ inflight[i].op = "delete"
        /\ LET h == handleAPIDelete(links, inflight[i].shortcode, fault)
           IN  /\ links' = h.links
               /\ inflight' = [inflight EXCEPT ![i].state = "done", ![i].err = h.err,
                                               ![i].status = h.resp.status]
    /\ UNCHANGED <<db, variant, pc, clock, last>>

NextConc ==
    \/ Receive
    \/ ExecPost
    \/ ExecDelete

SpecConc == InitConc /\ [][NextConc]_vars

----------------------------------------------------------------------------
(* Properties of the repository *)

\* The url the specification expects a write of u to store.
normalize(u) ==
    IF HasPrefix(u, "http://") \/ HasPrefix(u, "https://") THEN u ELSE "https://" \o u

\* A call of saveLink (through POST /api/links or the seeding in main) that succeeded.
OkUpsert(call) == call.op \in {"post", "seed"} /\ call.err = "ok"

\* The created_at values of the rows of s.
CreatedAt(rows, s) == {r.created_at : r \in DOMAIN RowsOf(rows, s)}

\* The stored (shortcode, url) pairs, with the number of rows holding each.
Content(rows) ==
    LET pairs == {Link(r.shortcode, r.url) : r \in DOMAIN rows}
    IN  [p \in pairs |->
            BagCardinality([r \in {x \in DOMAIN rows :
                                     Link(x.shortcode, x.url) = p} |-> rows[r]])]

\* C1: a successful Upsert(s, u) with s and u non-empty, immediately followed
\* by a Lookup(s) the store answers, makes the Lookup return normalize(u).
UpsertThenLookup ==
    [][(/\ OkUpsert(last)
        /\ last.shortcode # ""
        /\ last.url # ""
        /\ last'.op = "forward"
        /\ last'.shortcode = last.shortcode
        /\ last'.fault = "none")
       => (last'.err = "ok" /\ last'.out = normalize(last.url))]_vars

\* A Lookup right after an Upsert of the same shortcode returned https://github.com.
UpsertThenLookupSeen ==
    /\ last.op = "forward"
    /\ last.follows = "upsert"
    /\ last.err = "ok"
    /\ last.out = "https://github.com"

\* C2: the url of every stored Link begins with http:// or https://.
StoredURLHasScheme ==
    \A r \in DOMAIN links : HasPrefix(r.url, "http://") \/ HasPrefix(r.url, "https://")

\* A url sent without a scheme has been stored.
SchemelessURLStored ==
    /\ OkUpsert(last)
    /\ last.url = "github.com"
    /\ \E r \in DOMAIN links : r.shortcode = last.shortcode /\ r.url = "https://github.com"

\* C3: the store holds at most one Link per shortcode.
ShortcodeUnique ==
    \A r1 \in DOMAIN links :
        /\ links[r1] = 1
        /\ \A r2 \in DOMAIN links : r1.shortcode = r2.shortcode => r1 = r2

\* A shortcode that had a record has been written again.
ShortcodeWrittenAgain ==
    /\ OkUpsert(last)
    /\ last.had
    /\ BagCardinality(links) >= 2

UpsertReplaces ==
    [][(/\ OkUpsert(last')
        /\ Had(links, last'.shortcode))
       => /\ getURL(links', last'.shortcode, FALSE)
                = [url |-> normalize(last'.url), err |-> "ok"]
          /\ \A r \in DOMAIN links' :
                r.shortcode = last'.shortcode => r.url = normalize(last'.url)
          /\ BagCardinality(links') = BagCardinality(links)]_vars

\* An Upsert with another url has followed an Upsert of the same shortcode.
UpsertReplacesSeen ==
    /\ OkUpsert(last)
    /\ last.follows = "upsert"
    /\ last.had
    /\ last.url = "http://example.org"

DeleteAbsentIsNotFound ==
    [][(last'.op = "delete" /\ ~Had(links, last'.shortcode))
       => /\ last'.err # "ok"
          /\ last'.fault = "none" => last'.err = "notfound"
          /\ links' = links]_vars

\* A Delete has been answered not-found.
DeleteAbsentSeen ==
    /\ last.op = "delete"
    /\ ~last.had
    /\ last.err = "notfound"
    /\ links # EmptyBag

\* C8: Delete(s) on a shortcode with a record returns success and removes that
\* record and no other; s then has no record until an Upsert of s, and a
\* Lookup(s) the store answers meanwhile returns not-found.
DeleteRemoves ==
    [][/\ (last'.op = "delete" /\ last'.fault = "none" /\ Had(links, last'.shortcode))
          => /\ last'.err = "ok"
             /\ ~Had(links', last'.shortcode)
             /\ \A r \in DOMAIN links : r.shortcode # last'.shortcode
                    => (r \in DOMAIN links' /\ links'[r] = links[r])
             /\ DOMAIN links' \subseteq DOMAIN links
       /\ \A s \in BodyShortcodes :
            (~Had(links, s) /\ Had(links', s))
                => (OkUpsert(last') /\ last'.shortcode = s)
       /\ (last'.op = "forward" /\ last'.fault = "none" /\ ~Had(links, last'.shortcode))
          => last'.err = "notfound"]_vars

\* A Lookup right after a successful Delete of the same shortcode.
DeleteThenLookupSeen ==
    /\ last.op = "forward"
    /\ last.follows = "delete"
    /\ last.fault = "none"
    /\ last.err = "notfound"

\* C9: a ListAll the store answers returns exactly the stored Links, one entry
\* per stored shortcode: no entry on an empty store, N entries for N shortcodes.
ListAllReturnsStored ==
    (last.op = "list" /\ last.fault = "none")
        => /\ last.err = "ok"
           /\ Len(last.list) = BagCardinality(links)
           /\ {last.list[i] : i \in 1..Len(last.list)}
                = {Link(r.shortcode, r.url) : r \in DOMAIN links}
           /\ \A i, j \in 1..Len(last.list) :
                last.list[i].shortcode = last.list[j].shortcode => i = j
           /\ Len(last.list) = Cardinality({r.shortcode : r \in DOMAIN links})

\* ListAll has returned three Links.
ListAllSeen ==
    /\ last.op = "list"
    /\ last.fault = "none"
    /\ Len(last.list) = 3

----------------------------------------------------------------------------
(* Properties of the handlers *)

\* C11: GET /{shortcode} for a shortcode with a record, the store answering,
\* is answered 302 with the stored url as Location and leaves the store as it was.
ForwardRedirects ==
    [][(/\ last'.op = "forward"
        /\ last'.fault = "none"
        /\ Had(links, last'.shortcode))
       => /\ last'.resp.status = 302
          /\ last'.resp.location \in {r.url : r \in DOMAIN RowsOf(links, last'.shortcode)}
          /\ last'.resp.location = getURL(links', last'.shortcode, FALSE).url
          /\ links' = links]_vars

\* A stored shortcode has been forwarded to its http:// url.
ForwardRedirectsSeen ==
    /\ last.op = "forward"
    /\ last.had
    /\ last.resp.status = 302
    /\ last.resp.location = "http://example.org"

\* C12: GET /{shortcode} for a shortcode without a record is answered by the
\* one not-found answer of the variant: 302 to /?shortcode=<code>&error=not_found
\* by cmd/server, 404 by the standalone server; never a redirect to a destination.
NotFoundPolicy ==
    (last.op = "forward" /\ ~Had(links, last.shortcode))
        => /\ variant = "server"
                => /\ last.resp.status = 302
                   /\ last.resp.location
                        = "/?shortcode=" \o last.shortcode \o "&error=not_found"
           /\ variant = "standalone"
                => /\ last.resp.status = 404
                   /\ last.resp.location = ""
           /\ ~HasPrefix(last.resp.location, "http://")
           /\ ~HasPrefix(last.resp.location, "https://")

\* The cmd/server variant has answered a missing shortcode.
NotFoundPolicySeen ==
    /\ variant = "server"
    /\ last.op = "forward"
    /\ ~last.had
    /\ last.shortcode = "x"
    /\ last.fault = "none"
    /\ last.resp.status = 302

\* C13: a Lookup that fails in the store is answered with a server error, not
\* with the not-found answer.
ForwardStoreErrorIsServerError ==
    (last.op = "forward" /\ last.err = "store")
        => /\ last.resp.status = 500
           /\ last.resp.location = ""

\* C14: handleForward with an empty shortcode answers 400 and calls no
\* repository operation, whatever the store would do.
ForwardEmptyIsBadRequest ==
    (last.op = "forward" /\ last.shortcode = "")
        => /\ last.resp.status = 400
           /\ last.resp.location = ""
           /\ last.err = "-"
           /\ last.out = ""

\* handleForward has been called with an empty shortcode while the store fails.
ForwardEmptySeen ==
    /\ last.op = "forward"
    /\ last.shortcode = ""
    /\ last.fault = "exec"
    /\ last.resp.status = 400

\* C15: DELETE /api/links/{shortcode} answers 200 with success on success, 404
\* with success=false on not found, and 500 on any other failure of the store.
DeleteOutcomesDistinct ==
    (last.op = "delete" /\ last.shortcode # "")
        => /\ last.err = "ok" => (last.resp.status = 200 /\ last.resp.success)
           /\ last.err = "notfound" => (last.resp.status = 404 /\ ~last.resp.success)
           /\ last.err = "store" => (last.resp.status = 500 /\ ~last.resp.success)

\* C16: a POST /api/links whose body is no valid JSON, or has an empty shortcode
\* or an empty url, is answered 400 with success=false, without a call of
\* saveLink and with the store unchanged.
PostInvalidIsBadRequest ==
    [][/\ (last'.op = "post" /\ (last'.shortcode = "" \/ last'.url = ""))
          => /\ last'.resp.status = 400
             /\ last'.resp.envelope
             /\ ~last'.resp.success
             /\ last'.err = "-"
             /\ links' = links
       /\ \A s \in BodyShortcodes, u \in BodyURLs, fault \in BOOLEAN :
            LET h == handleAPIPost(links, FALSE, s, u, clock, fault)
            IN  /\ h.resp.status = 400
                /\ h.resp.envelope
                /\ ~h.resp.success
                /\ h.err = "-"
                /\ h.links = links]_vars

\* A POST with an empty shortcode and a url has been refused.
PostInvalidSeen ==
    /\ last.op = "post"
    /\ last.shortcode = ""
    /\ last.url = "github.com"
    /\ last.resp.status = 400

\* C17: the data of a successful POST /api/links is the stored Link: its
\* shortcode and url are those of the record, so data.url is what Lookup returns.
PostEchoesStoredLink ==
    (last.op = "post" /\ last.err = "ok")
        => /\ last.resp.success
           /\ last.resp.data.kind = "link"
           /\ last.resp.data.links[1].shortcode = last.shortcode
           /\ last.resp.data.links[1].url = getURL(links, last.shortcode, FALSE).url

OtherMethodEnvelope ==
    (last.op = "other")
        => /\ last.resp.status = 405
           /\ last.resp.envelope
           /\ ~last.resp.success
           /\ last.resp.message = "Method not allowed"

\* C20: however Upsert requests to one shortcode interleave, the store holds
\* exactly one record for it, with normalize(u) for the u of one of them that
\* succeeded, as after running them one after another.
ConcurrentUpsertsSerial ==
    \A s \in ConcShortcodes :
        LET posts == {i \in Requests : /\ inflight[i].state = "done"
                                       /\ inflight[i].op = "post"
                                       /\ inflight[i].shortcode = s
                                       /\ inflight[i].err = "ok"}
            deletes == {i \in Requests : /\ inflight[i].state = "done"
                                         /\ inflight[i].op = "delete"
                                         /\ inflight[i].shortcode = s}
        IN  (posts # {} /\ deletes = {})
                => /\ BagCardinality(RowsOf(links, s)) = 1
                   /\ \A r \in DOMAIN RowsOf(links, s) :
                        \E i \in posts : r.url = normalize(inflight[i].url)

\* Two Upserts of one shortcode with different urls, served at once, have both
\* succeeded.
ConcurrentUpsertsSeen ==
    \E i, j \in Requests :
        /\ i # j
        /\ inflight[j].overlap
        /\ inflight[i].state = "done" /\ inflight[j].state = "done"
        /\ inflight[i].op = "post" /\ inflight[j].op = "post"
        /\ inflight[i].err = "ok" /\ inflight[j].err = "ok"
        /\ inflight[i].shortcode = "x" /\ inflight[j].shortcode = "x"
        /\ inflight[i].url # inflight[j].url

----------------------------------------------------------------------------
(* Properties of the whole program *)

\* The rows of the table whose shortcode is not s.
RowsExcept(rows, s) == rows (-) RowsOf(rows, s)

\* C21: a write or a delete applies completely or not at all: one that reports
\* a store error leaves the table as it was, and every other one leaves either
\* the table it found or that table with the rows of its shortcode replaced by
\* the one new row (write) or removed (delete).
MutationAllOrNothing ==
    [][(last'.op \in {"post", "seed", "delete"})
       => /\ last'.err = "store" => links' = links
          /\ \/ links' = links
             \/ /\ last'.err = "ok"
                /\ RowsExcept(links', last'.shortcode) = RowsExcept(links, last'.shortcode)
                /\ IF last'.op = "delete"
                   THEN RowsOf(links', last'.shortcode) = EmptyBag
                   ELSE Content(RowsOf(links', last'.shortcode))
                            = SetToBag({Link(last'.shortcode, normalize(last'.url))})]_vars

\* A write of a shortcode that had a record met a store error, and the record
\* is still there.
FailedOverwriteSeen ==
    /\ last.op = "post"
    /\ last.err = "store"
    /\ last.had
    /\ Had(links, last.shortcode)

\* C22: whenever the store fails during a call of the repository, the call
\* returns an error; a listing cut short by a failure is not returned as success.
RepositoryReportsStoreErrors ==
    last.fault # "none" => last.err = "store"

\* C23: the store handle is opened once at startup, before any request is
\* served, and Close has been called on it when the process has shut down.
HandleOpenedThenClosed ==
    /\ pc = "serving" => db = "open"
    /\ last.op = "exit" => db = Close(db)

\* C24: when serving begins, whatever the table held at the start, a Lookup of
\* "google" returns https://www.google.com and one of "github" returns
\* https://github.com, and the seeding has left every other record as it was.
SeedsPresentWhenServingBegins ==
    /\ []((pc = "serving" /\ last.op = "seed")
            => /\ getURL(links, "google", FALSE)
                    = [url |-> "https://www.google.com", err |-> "ok"]
               /\ getURL(links, "github", FALSE)
                    = [url |-> "https://github.com", err |-> "ok"])
    /\ [][last'.op = "seed"
            => RowsExcept(links', last'.shortcode) = RowsExcept(links, last'.shortcode)]_vars

\* C25: a forwarding request, found or not, and GET /api/links leave the
\* table as it was: the same records, urls and creation times.
ReadsKeepStore ==
    [][last'.op \in {"forward", "list"} => links' = links]_vars

\* A forwarding request found its record in a table of three.
ReadOfFullTableSeen ==
    /\ last.op = "forward"
    /\ last.err = "ok"
    /\ BagCardinality(links) = 3

\* The scheme prefix a stored url begins with ("" when it has none).
SchemeOf(u) ==
    IF HasPrefix(u, "https://") THEN "https://"
    ELSE IF HasPrefix(u, "http://") THEN "http://" ELSE ""

\* C26: every stored Link has a non-empty shortcode and a url strictly longer
\* than its scheme prefix.
StoredLinkNotEmpty ==
    \A r \in DOMAIN links :
        /\ r.shortcode # ""
        /\ SchemeOf(r.url) # ""
        /\ Len(r.url) > Len(SchemeOf(r.url))

\* The requests of kind op on shortcode s that have been answered.
Done(op, s) ==
    {i \in Requests : /\ inflight[i].state = "done"
                      /\ inflight[i].op = op
                      /\ inflight[i].shortcode = s}

\* The requests of kind op on shortcode s, answered or being served.
Arrived(op, s) ==
    {i \in Requests : inflight[i].op = op /\ inflight[i].shortcode = s}

\* C27: of the Deletes of a stored shortcode served at once, with no Upsert of
\* it and no store failure, exactly one reports success, every other one
\* reports not found with status 404, and the shortcode is absent afterwards;
\* a Delete racing with Upserts of its shortcode leaves the shortcode absent or
\* with one record holding the url of one of the Upserts.
ConcurrentDeletesSerial ==
    /\ LET deletes == Done("delete", "google")
       IN  (/\ Arrived("post", "google") = {}
            /\ deletes # {}
            /\ \A i \in deletes : inflight[i].err # "store")
              => /\ Cardinality({i \in deletes : inflight[i].err = "ok"}) = 1
                 /\ \A i \in deletes :
                        /\ inflight[i].err = "ok" => inflight[i].status = 200
                        /\ inflight[i].err # "ok"
                              => inflight[i].err = "notfound" /\ inflight[i].status = 404
                 /\ RowsOf(links, "google") = EmptyBag
    /\ \A s \in ConcShortcodes :
        LET posts == {i \in Done("post", s) : inflight[i].err = "ok"}
        IN  (posts # {} /\ Done("delete", s) # {})
              => \/ /\ RowsOf(links, s) = EmptyBag
                    /\ \E i \in Done("delete", s) : inflight[i].err = "ok"
                 \/ /\ BagCardinality(RowsOf(links, s)) = 1
                    /\ \E i \in posts : \A r \in DOMAIN RowsOf(links, s) :
                            r.url = normalize(inflight[i].url)

\* Two Deletes of "google", served at once, have been answered: one with
\* success and one with not found.
ConcurrentDeletesSeen ==
    \E i, j \in Requests :
        /\ i # j
        /\ inflight[j].overlap
        /\ inflight[i].state = "done" /\ inflight[j].state = "done"
        /\ inflight[i].op = "delete" /\ inflight[j].op = "delete"
        /\ inflight[i].shortcode = "google" /\ inflight[j].shortcode = "google"
        /\ {inflight[i].err, inflight[j].err} = {"ok", "notfound"}

====
